---- MODULE Spec2Model ----
(***************************************************************************)
(* Flex Living reviews dashboard (src/streamlit_app.py, src/api.py).       *)
(*                                                                         *)
(* The dashboard is a Streamlit script: every interaction of the operator  *)
(* sets one widget and runs the whole script again, top to bottom.  What   *)
(* outlives a run is the snapshot file on disk, the st.cache_data entry of *)
(* load_reviews and the widget values of the session.  The data frame df   *)
(* is rebuilt at the start of every run from a fresh copy of the cache     *)
(* entry.                                                                  *)
(***************************************************************************)
EXTENDS Integers, Sequences, FiniteSets, TLC

\* Python None / JSON null / pandas NaN / NaT in a numeric position.
NoneVal == -1
\* None in a string position (a missing or null string field).
NoneStr == "<None>"
\* None in a text position; texts are sequences of characters.
NoneText == << "<None>" >>

-----------------------------------------------------------------------------
(* Bounds of the model. *)

\* Largest number of records in a raw batch.
MaxRecords == 2
\* Largest number of filter widgets that are off their default at once.
MaxActiveFilters == 1

-----------------------------------------------------------------------------
(* Raw review records, as json.load returns them.  displayOnWebsite is    *)
(* "absent", "null", "true" or "false"; reviewCategory is the list of      *)
(* {category, rating} entries (an absent list reads as the empty one);     *)
(* reviewerId stands for a field the dashboard does not know.              *)

RecA ==
    [id |-> 1, listingId |-> 101, listingName |-> "Shoreditch", type |-> "guest-to-host",
     status |-> "published", rating |-> 8, publicReview |-> << "G", "o", "o", "d" >>,
     channel |-> "airbnb", channelId |-> 2005, guestName |-> << "A", "n", "n" >>,
     displayOnWebsite |-> "absent", date |-> "2024-01-15", created |-> NoneStr,
     reviewCategory |-> << [category |-> "cleanliness", rating |-> 9] >>,
     reviewerId |-> 7]

RecB ==
    [RecA EXCEPT !.id = 2, !.listingId = 102, !.listingName = "Camden",
                 !.rating = NoneVal, !.publicReview = NoneText,
                 !.channel = "booking", !.guestName = << "B", "o" >>,
                 !.displayOnWebsite = "null", !.date = "bad-date",
                 !.reviewCategory = << [category |-> "cleanliness", rating |-> NoneVal] >>,
                 !.reviewerId = NoneVal]

RecC ==
    [RecA EXCEPT !.rating = 5, !.publicReview = << "b", "a", "d" >>,
                 !.displayOnWebsite = "true", !.date = NoneStr, !.created = "2024-02-03",
                 !.reviewCategory = << [category |-> "communication", rating |-> 1],
                                       [category |-> "communication", rating |-> 5] >>]

RecD ==
    [RecB EXCEPT !.id = NoneVal, !.rating = 11, !.displayOnWebsite = "false",
                 !.date = "15 Jan 2024", !.reviewCategory = << >>]

RecE ==
    [RecB EXCEPT !.rating = 9, !.publicReview = << "o", "k" >>,
                 !.displayOnWebsite = "false", !.date = "2024-01-20T10:00:00",
                 !.reviewCategory = << [category |-> "communication", rating |-> NoneVal],
                                       [category |-> "cleanliness", rating |-> 7] >>]

RawRecords == {RecA, RecB, RecC, RecD, RecE}

\* The sequences of at most n distinct elements of S.
SeqUpTo(S, n) ==
    {b \in UNION {[1..k -> S] : k \in 0..n} :
        \A i \in DOMAIN b, j \in DOMAIN b : b[i] = b[j] => i = j}

RawBatches == SeqUpTo(RawRecords, MaxRecords)

\* An envelope: the outer JSON object, with the key its list is under.
Envelope(key, recs) == [key |-> key, records |-> recs]

\* raw.get("result", [])
GetResult(raw) == IF raw.key = "result" THEN raw.records ELSE << >>

-----------------------------------------------------------------------------
(* Date parsing.  A timestamp is hours since 2024-01-01 00:00, plus 24.    *)

\* datetime.fromisoformat(date_str); NoneVal stands for the exception.
FromIsoFormat(s) ==
    CASE s = "2024-01-15" -> 15 * 24
      [] s = "2024-01-20T10:00:00" -> 20 * 24 + 10
      [] s = "2024-02-03" -> (31 + 3) * 24
      [] OTHER -> NoneVal

\* pd.to_datetime(date_str, errors="coerce")
ToDatetimeCoerce(s) ==
    CASE s = "15 Jan 2024" -> 15 * 24
      [] s = NoneStr -> NoneVal
      [] s = "bad-date" -> NoneVal
      [] OTHER -> FromIsoFormat(s)

\* r.get("date") or r.get("created"), then the two parsers in turn.
ParseDate(r) ==
    LET date_str == IF r.date # NoneStr THEN r.date ELSE r.created
    IN  IF FromIsoFormat(date_str) # NoneVal
        THEN FromIsoFormat(date_str)
        ELSE ToDatetimeCoerce(date_str)

\* Timestamp.date(), as a day number.
DateOf(ts) == ts \div 24

\* df["date"].dt.to_period("M").astype(str)
YearMonth(ts) ==
    IF ts = NoneVal THEN "NaT"
    ELSE IF DateOf(ts) <= 31 THEN "2024-01" ELSE "2024-02"

-----------------------------------------------------------------------------
(* Normalization: load_reviews lines 70-101, the same loop as               *)
(* normalize_reviews of api.py.                                            *)

\* The value the flattening loop leaves under cat_<name>: the last entry of
\* that name wins; NoneVal when the record has no such entry.
RECURSIVE CatValue(_, _)
CatValue(cats, name) ==
    IF cats = << >> THEN NoneVal
    ELSE LET last == cats[Len(cats)]
         IN  IF last.category = name THEN last.rating
             ELSE CatValue(SubSeq(cats, 1, Len(cats) - 1), name)

CatNames(cats) == {cats[i].category : i \in 1..Len(cats)}

\* r.get("displayOnWebsite", False)
GetDisplay(r) ==
    CASE r.displayOnWebsite = "absent" -> "false"
      [] r.displayOnWebsite = "null" -> "none"
      [] OTHER -> r.displayOnWebsite

\* The cat_ columns of the frame: the union over the rows.
CategoryCols(reviews) ==
    UNION {CatNames(reviews[i].reviewCategory) : i \in 1..Len(reviews)}

\* One row of the frame.  A cell of a cat_ column the row has no key for is NaN.
BaseRow(r, cols) ==
    [id |-> r.id, listingId |-> r.listingId, listingName |-> r.listingName,
     type |-> r.type, status |-> r.status, rating |-> r.rating,
     publicReview |-> r.publicReview, channel |-> r.channel,
     channelId |-> r.channelId, guestName |-> r.guestName,
     displayOnWebsite |-> GetDisplay(r),
     date |-> ParseDate(r),
     year_month |-> YearMonth(ParseDate(r)),
     cat |-> [c \in cols |-> CatValue(r.reviewCategory, c)]]

\* pd.DataFrame(rows)
Normalize(raw) ==
    LET reviews == GetResult(raw)
    IN  [i \in 1..Len(reviews) |-> BaseRow(reviews[i], CategoryCols(reviews))]

-----------------------------------------------------------------------------
(* The remote source: fetch_hostaway_reviews.                               *)

\* What one call of the Hostaway endpoint can come to.  body is the parsed
\* JSON document, as an envelope.
Response(creds, raised, status_code, parsable, body) ==
    [creds |-> creds, raised |-> raised, status_code |-> status_code,
     parsable |-> parsable, body |-> body]

RemoteBatch == << RecA >>

Responses ==
    { Response(FALSE, FALSE, 200, TRUE, Envelope("result", RemoteBatch)),
      Response(TRUE, TRUE, 200, TRUE, Envelope("result", RemoteBatch)),
      Response(TRUE, FALSE, 500, TRUE, Envelope("result", RemoteBatch)),
      Response(TRUE, FALSE, 200, FALSE, Envelope("result", RemoteBatch)),
      Response(TRUE, FALSE, 200, TRUE, Envelope("data", RemoteBatch)),
      Response(TRUE, FALSE, 200, TRUE, Envelope("result", << >>)),
      Response(TRUE, FALSE, 200, TRUE, Envelope("result", RemoteBatch)) }

\* The None that fetch_hostaway_reviews returns on every failure.
NoData == [ok |-> FALSE, data |-> Envelope("result", << >>)]

\* fetch_hostaway_reviews without the status test of line 48.
FetchAnyStatus(resp) ==
    IF ~resp.creds THEN NoData
    ELSE IF resp.raised THEN NoData
    ELSE IF ~resp.parsable THEN NoData
    ELSE IF resp.body.key = "result" /\ Len(resp.body.records) > 0
         THEN [ok |-> TRUE, data |-> resp.body]
         ELSE NoData

fetch_hostaway_reviews(resp) ==
    IF ~resp.creds THEN NoData                       \* line 38
    ELSE IF resp.raised THEN NoData                  \* requests.get raised
    ELSE IF resp.status_code # 200 THEN NoData
    ELSE IF ~resp.parsable THEN NoData               \* resp.json() raised
    ELSE IF resp.body.key = "result" /\ Len(resp.body.records) > 0
         THEN [ok |-> TRUE, data |-> resp.body]
         ELSE NoData

-----------------------------------------------------------------------------
(* The snapshot file and load_reviews.                                      *)

\* The file at DATA_PATH: missing, a JSON document, or a document cut short
\* (no reader parses it, so what is left of its text is not kept).
MissingFile == [kind |-> "missing", doc |-> Envelope("result", << >>)]
JsonFile(raw) == [kind |-> "json", doc |-> raw]
TruncatedFile == [kind |-> "truncated", doc |-> Envelope("result", << >>)]

\* The value load_reviews returns: (df, raw, source), or the exception exc
\* that leaves it.
Returned(exc, raw, source) ==
    [exc |-> exc, df |-> Normalize(raw), raw |-> raw, source |-> source]

\* Lines 58-103
load_reviews(path, resp) ==
    LET api_data == fetch_hostaway_reviews(resp)
    IN  IF api_data.ok
        THEN Returned("none", api_data.data, "hostaway")
        ELSE CASE path.kind = "missing" ->
                    Returned("FileNotFoundError", NoData.data, "mock")
               [] path.kind = "truncated" ->
                    Returned("JSONDecodeError", NoData.data, "mock")
               [] OTHER ->
                    Returned("none", path.doc, "mock")

-----------------------------------------------------------------------------
(* Sidebar widgets and the filtering block.                                 *)

SeqToSet(s) == {s[i] : i \in 1..Len(s)}

\* ["All"] + sorted(df["listingName"].dropna().unique())
Listings(frame) == {"All"} \cup ({frame[i].listingName : i \in 1..Len(frame)} \ {NoneStr})
\* ["All"] + sorted(df["channel"].dropna().unique())
Channels(frame) == {"All"} \cup ({frame[i].channel : i \in 1..Len(frame)} \ {NoneStr})
\* ["All"] + the names of the cat_ columns (every row has the same columns)
Categories(frame) == {"All"} \cup (IF frame = << >> THEN {} ELSE DOMAIN frame[1].cat)

\* The choices of the rating slider the model draws from; the first is its default.
DefaultRating == << 0, 10 >>
RatingRanges == {DefaultRating, << 6, 10 >>}

\* The search texts the model draws from; the empty one is the default.
SearchTexts == {<< >>, << "g", "o" >>}

Dates(frame) == {frame[i].date : i \in 1..Len(frame)} \ {NoneVal}
SetMin(S) == CHOOSE x \in S : \A y \in S : x <= y
SetMax(S) == CHOOSE x \in S : \A y \in S : x >= y

\* The date range: unset means the default of line 149, [date_min, date_max].
DefaultDates == [set |-> FALSE, start |-> 0, end |-> 0]
DateRange(frame, sel) ==
    IF sel.set THEN << sel.start, sel.end >>
    ELSE IF Dates(frame) = {} THEN << NoneVal, NoneVal >>    \* NaT, NaT
    ELSE << DateOf(SetMin(Dates(frame))), DateOf(SetMax(Dates(frame))) >>

\* str.lower on one character.
LowerChar(c) ==
    CASE c = "G" -> "g" [] c = "A" -> "a" [] c = "B" -> "b" [] OTHER -> c
Lower(t) == [i \in 1..Len(t) |-> LowerChar(t[i])]

\* Series.fillna("")
FillNa(t) == IF t = NoneText THEN << >> ELSE t

\* str.contains(needle, case=False) on plain characters.
Contains(hay, needle) ==
    \E i \in 1..(Len(hay) - Len(needle) + 1) :
        SubSeq(Lower(hay), i, i + Len(needle) - 1) = Lower(needle)

\* The widget values one run of the script filters with.
Criteria(listing, channel, rating, category, dates, search) ==
    [listing |-> listing, channel |-> channel, rating |-> rating,
     category |-> category, dates |-> dates, search |-> search]

DefaultCriteria ==
    Criteria("All", "All", DefaultRating, "All", DefaultDates, << >>)

\* The tests of lines 162-176, one per line of the block.
ListingTest(r, c) == c.listing = "All" \/ r.listingName = c.listing
ChannelTest(r, c) == c.channel = "All" \/ r.channel = c.channel
RatingTest(r, c) ==
    r.rating # NoneVal /\ r.rating >= c.rating[1] /\ r.rating <= c.rating[2]
CategoryTest(r, c) ==
    c.category = "All"
    \/ (c.category \in DOMAIN r.cat /\ r.cat[c.category] # NoneVal)
\* DateTest with the end of the range left out.
DateTestBeforeEnd(r, range) ==
    r.date # NoneVal /\ DateOf(r.date) >= range[1] /\ DateOf(r.date) < range[2]
DateTest(r, range) ==
    /\ r.date # NoneVal
    /\ range[1] # NoneVal /\ DateOf(r.date) >= range[1]
    /\ range[2] # NoneVal /\ DateOf(r.date) <= range[2]
SearchTest(r, c) ==
    c.search = << >>
    \/ Contains(FillNa(r.publicReview), c.search)
    \/ Contains(FillNa(r.guestName), c.search)

\* Lines 161-176: filtered, in the order of df.
Filter(frame, c) ==
    LET range == DateRange(frame, c.dates)
        Keep(r) == /\ ListingTest(r, c)
                   /\ ChannelTest(r, c)
                   /\ RatingTest(r, c)
                   /\ CategoryTest(r, c)
                   /\ DateTest(r, range)
                   /\ SearchTest(r, c)
    IN  SelectSeq(frame, Keep)

-----------------------------------------------------------------------------
(* KPIs and the per-property summary.                                       *)

RECURSIVE SumOver(_, _)
SumOver(S, f) ==
    IF S = {} THEN 0
    ELSE LET x == CHOOSE y \in S : TRUE IN f[x] + SumOver(S \ {x}, f)

\* A metric: a number, or the text "N/A" shown in place of one.
Num(v) == [na |-> FALSE, v |-> v]
NA == [na |-> TRUE, v |-> 0]
\* The mean of no values: the number NaN.
NaN == Num(NoneVal)

\* round(total / n, 2), in hundredths.
Round2(total, n) == (200 * total + n) \div (2 * n)
\* round(100 * part / n, 1), in tenths.
Round1Pct(part, n) == (2000 * part + n) \div (2 * n)

\* filtered["rating"].mean(): NaN ratings are skipped.
MeanRating(rows) ==
    LET I == {i \in 1..Len(rows) : rows[i].rating # NoneVal}
    IN  IF I = {} THEN NaN
        ELSE Num(Round2(SumOver(I, [i \in I |-> rows[i].rating]), Cardinality(I)))

\* filtered["displayOnWebsite"].mean(): None is skipped.
MeanDisplayed(rows) ==
    LET I == {i \in 1..Len(rows) : rows[i].displayOnWebsite # "none"}
        T == {i \in I : rows[i].displayOnWebsite = "true"}
    IN  IF I = {} THEN NaN ELSE Num(Round1Pct(Cardinality(T), Cardinality(I)))

\* Line 185
AvgRating(rows) == IF rows # << >> THEN MeanRating(rows) ELSE NA
\* Line 188
PercentDisplayed(rows) == IF rows # << >> THEN MeanDisplayed(rows) ELSE Num(0)

\* One row of the per-property table: the aggregates of one group.
PropertyRow(group) ==
    [avg_rating |-> MeanRating(group),
     reviews |-> Cardinality({i \in 1..Len(group) : group[i].id # NoneVal}),
     pct_displayed |-> MeanDisplayed(group)]

\* Lines 217-221: one row per listing name of the filtered view.
Summary(rows) ==
    [n \in {rows[i].listingName : i \in 1..Len(rows)} \ {NoneStr} |->
        PropertyRow(SelectSeq(rows, LAMBDA r : r.listingName = n))]

-----------------------------------------------------------------------------
(* save_reviews.                                                            *)

\* bool(x) of a displayOnWebsite cell
Bool(d) == IF d = "true" THEN "true" ELSE "false"

\* The keys of df.set_index("id")["displayOnWebsite"].to_dict() a raw id can
\* be found under.  A frame whose ids are all None keeps None as a key; with
\* any number among them the column is float and None becomes NaN, which no
\* raw id equals.
IdKeys(frame) ==
    LET ids == {frame[i].id : i \in 1..Len(frame)}
    IN  IF ids = {NoneVal} THEN ids ELSE ids \ {NoneVal}

\* len(id_to_display): one key per distinct id, and one per NaN.
IdCount(frame) ==
    LET ids == {frame[i].id : i \in 1..Len(frame)}
    IN  IF ids = {NoneVal} THEN 1
        ELSE Cardinality(ids \ {NoneVal})
             + Cardinality({i \in 1..Len(frame) : frame[i].id = NoneVal})

\* id_to_display[k]: the last row of that id wins.
IdToDisplay(frame, k) ==
    LET I == {i \in 1..Len(frame) : frame[i].id = k}
    IN  frame[SetMax(I)].displayOnWebsite

\* Overlay writing the record back from the fields the frame knows.
OverlayKnownFields(r, frame) ==
    IF r.id \in IdKeys(frame)
    THEN [r EXCEPT !.displayOnWebsite = Bool(IdToDisplay(frame, r.id)),
                   !.reviewerId = NoneVal]
    ELSE r

\* Lines 107-109: the overlay on one raw record.
Overlay(r, frame) ==
    IF r.id \in IdKeys(frame)
    THEN [r EXCEPT !.displayOnWebsite = Bool(IdToDisplay(frame, r.id))]
    ELSE r

\* Lines 106-111: the document json.dump writes.
save_reviews(original_raw, frame) ==
    IF original_raw.key = "result"
    THEN Envelope(original_raw.key,
                  [i \in 1..Len(original_raw.records) |->
                      Overlay(original_raw.records[i], frame)])
    ELSE original_raw

\* SaveButton saving on every run.
SaveOnEveryRun(path, clicked, original_raw, frame) ==
    JsonFile(save_reviews(original_raw, frame))

\* Lines 155-156: the file after the sidebar, with the button clicked or not.
SaveButton(path, clicked, original_raw, frame) ==
    IF clicked THEN JsonFile(save_reviews(original_raw, frame)) ELSE path

-----------------------------------------------------------------------------
(* The review list with its display checkboxes.                             *)

page_size == 8

\* The largest page of the number input of line 236.
MaxPage(total) == (total - 1) \div page_size + 1

\* sort_values("date", ascending=False): equal dates keep their order.
RECURSIVE SortByDateDesc(_)
SortByDateDesc(rows) ==
    IF rows = << >> THEN << >>
    ELSE LET top == SetMax({rows[i].date : i \in 1..Len(rows)})
             k == SetMin({i \in 1..Len(rows) : rows[i].date = top})
         IN  << rows[k] >>
             \o SortByDateDesc(SubSeq(rows, 1, k - 1) \o SubSeq(rows, k + 1, Len(rows)))

\* Lines 237-239
PageRows(rows, pg) ==
    LET start == (pg - 1) * page_size
        sorted == SortByDateDesc(rows)
    IN  SubSeq(sorted, start + 1, IF start + page_size < Len(sorted)
                                  THEN start + page_size ELSE Len(sorted))

\* The ids a display_<id> checkbox can be keyed with.
CheckboxKeys == {r.id : r \in RawRecords} \ {NoneVal}
NoCheckbox == [k \in CheckboxKeys |-> "unset"]

\* Line 256: the value of the checkbox: what the session holds under the key,
\* else the value= argument.
CheckboxValue(cb, row) ==
    IF cb[row.id] # "unset" THEN cb[row.id] ELSE Bool(row.displayOnWebsite)

\* Line 257
SetDisplay(frame, id, val) ==
    [i \in 1..Len(frame) |->
        IF frame[i].id = id THEN [frame[i] EXCEPT !.displayOnWebsite = Bool(val)]
        ELSE frame[i]]

\* Lines 241-257, row by row.  int(row['id']) raises on a missing id (NaN in
\* a float column, None where every id is None), and a second checkbox of
\* one key raises in Streamlit.
RECURSIVE RenderRows(_, _, _, _)
RenderRows(rows, frame, cb, keys) ==
    IF rows = << >> THEN [df |-> frame, shown |-> keys, exc |-> "none"]
    ELSE LET row == Head(rows)
         IN  IF row.id = NoneVal
             THEN [df |-> frame, shown |-> keys,
                   exc |-> IF IdKeys(frame) = {NoneVal} THEN "TypeError"
                           ELSE "ValueError"]
             ELSE IF row.id \in keys
             THEN [df |-> frame, shown |-> keys, exc |-> "DuplicateWidgetID"]
             ELSE RenderRows(Tail(rows),
                             SetDisplay(frame, row.id, CheckboxValue(cb, row)),
                             cb, keys \cup {row.id})

\* Lines 277-280: the ids on the public page of one property.
Approved(frame, property) ==
    LET rows == SelectSeq(frame, LAMBDA r :
                    r.listingName = property /\ r.displayOnWebsite = "true")
        sorted == SortByDateDesc(rows)
    IN  [i \in 1..Len(sorted) |-> sorted[i].id]

-----------------------------------------------------------------------------
(* State.                                                                   *)

VARIABLES
    file,               \* the snapshot file at DATA_PATH
    fetch,              \* the answer of the endpoint in the last run, if it was called
    cache,              \* the st.cache_data entry of load_reviews
    criteria,           \* the six filter widgets of the sidebar
    page,               \* the page number input
    view_mode,          \* the view mode radio
    checkbox,           \* the display_<id> checkboxes the session holds a value for
    stage,              \* how far the last run of the script got
    exc,                \* the exception that ended it, or "none"
    data_source,        \* "hostaway" or "mock"
    raw_json,           \* the raw batch of the last run
    df,                 \* the frame at the end of the last run
    filtered,           \* the filtered view
    avg_rating,         \* KPI: average rating of the filtered view
    percent_displayed,  \* KPI: percent of the filtered view shown on the website
    summary,            \* the per-property table
    shown,              \* the ids whose checkbox the last run rendered
    approved,           \* the public page: per property, the ids listed
    saved               \* what the save button of the last run reported

vars == << file, fetch, cache, criteria, page, view_mode, checkbox, stage, exc,
           data_source, raw_json, df, filtered, avg_rating, percent_displayed,
           summary, shown, approved, saved >>

NoCache == [hit |-> FALSE, df |-> << >>, raw |-> NoData.data, source |-> "mock"]
NotSaved == [done |-> FALSE, count |-> 0]
NoSummary == [n \in {} |-> NA]

-----------------------------------------------------------------------------
(* One run of the script, top to bottom.                                    *)

\* @st.cache_data: a hit hands out a copy of the stored value; a miss calls
\* load_reviews.
CachedLoad(cch, path, resp) ==
    IF cch.hit
    THEN [exc |-> "none", df |-> cch.df, raw |-> cch.raw, source |-> cch.source]
    ELSE load_reviews(path, resp)

\* The session drops the value of a widget a finished run did not render.
KeepRendered(cb, keys) == [k \in CheckboxKeys |-> IF k \in keys THEN cb[k] ELSE "unset"]

\* A run that ended before the filtering block.
EarlyEnd(L, path, cch, cb, at, why) ==
    [file |-> path, cache |-> cch, checkbox |-> cb, page |-> 1,
     stage |-> at, exc |-> why,
     data_source |-> L.source, raw_json |-> L.raw, df |-> L.df,
     filtered |-> << >>, avg_rating |-> NA, percent_displayed |-> NA,
     summary |-> NoSummary, shown |-> {}, approved |-> NoSummary, saved |-> NotSaved]

\* Lines 178-329: the KPIs, the table, and what the review list (R) and the
\* public page leave behind.
Finish(L, path, cch, vm, cb, clicked, frame, view, pg1, R) ==
    [file |-> SaveButton(path, clicked, L.raw, frame),
     cache |-> cch,
     checkbox |-> IF R.exc = "none" THEN KeepRendered(cb, R.shown) ELSE cb,
     page |-> pg1,
     stage |-> IF R.exc = "none" THEN "done" ELSE "reviews",
     exc |-> R.exc,
     data_source |-> L.source, raw_json |-> L.raw, df |-> R.df,
     filtered |-> view,
     avg_rating |-> AvgRating(view),
     percent_displayed |-> PercentDisplayed(view),
     summary |-> Summary(view),
     shown |-> R.shown,
     approved |-> IF R.exc = "none" /\ vm = "Public Property Page"
                  THEN [p \in Listings(R.df) \ {"All"} |-> Approved(R.df, p)]
                  ELSE NoSummary,
     saved |-> IF clicked THEN [done |-> TRUE, count |-> IdCount(frame)]
               ELSE NotSaved]

\* Lines 230-257: the page of the number input, and its rows rendered.
Reviews(L, path, cch, vm, cb, clicked, frame, view, pg1) ==
    Finish(L, path, cch, vm, cb, clicked, frame, view, pg1,
           RenderRows(PageRows(view, pg1), frame, cb, {}))

\* Lines 160-176, then the rest.
Body(L, path, cch, crit, pg, vm, cb, clicked, frame, view) ==
    Reviews(L, path, cch, vm, cb, clicked, frame, view,
            IF pg <= MaxPage(Len(view)) THEN pg ELSE 1)

\* Lines 125-329, with the value load_reviews returned (L) and its frame.
\* With no date in the frame, date_min and date_max are NaT, and whether
\* st.sidebar.date_input takes them or raises is left open (nat_raises).
Sidebar(L, path, crit, pg, vm, cb, clicked, kept, frame, nat_raises) ==
    IF L.exc = "FileNotFoundError"          \* lines 121-123: st.error, st.stop
    THEN EarlyEnd(L, path, NoCache, cb, "stopped", L.exc)
    ELSE IF L.exc # "none"                  \* line 120: not caught
    THEN EarlyEnd(L, path, NoCache, cb, "load", L.exc)
    ELSE IF frame = << >>                   \* line 135: no such column
    THEN EarlyEnd(L, path, kept, cb, "sidebar", "KeyError")
    ELSE IF Dates(frame) = {} /\ nat_raises \* line 149
    THEN EarlyEnd(L, path, kept, cb, "sidebar", "Exception")
    ELSE Body(L, path, kept, crit, pg, vm, cb, clicked, frame, Filter(frame, crit))

\* The script from line 125 on.
Loaded(L, path, crit, pg, vm, cb, clicked, nat_raises) ==
    Sidebar(L, path, crit, pg, vm, cb, clicked,
            [hit |-> TRUE, df |-> L.df, raw |-> L.raw, source |-> L.source], L.df,
            nat_raises)

\* What date_input can do with the frame of L.
DateInputs(L) ==
    IF L.exc = "none" /\ L.df # << >> /\ Dates(L.df) = {} THEN BOOLEAN ELSE {FALSE}

\* The endpoint is called only when load_reviews is: on a cache miss.
NoCall == [called |-> FALSE, resp |-> Response(FALSE, FALSE, 200, TRUE, NoData.data)]
Calls(cch) ==
    IF cch.hit THEN {NoCall} ELSE {[called |-> TRUE, resp |-> r] : r \in Responses}

\* The variables after a run.
Run(crit, pg, vm, cb, clicked) ==
    \E call \in Calls(cache) :
    \E L \in {CachedLoad(cache, file, call.resp)} :
    \E nat_raises \in DateInputs(L) :
    \E S \in {Loaded(L, file, crit, pg, vm, cb, clicked, nat_raises)} :
        /\ file' = S.file
        /\ fetch' = call
        /\ cache' = S.cache
        /\ criteria' = crit
        /\ page' = S.page
        /\ view_mode' = vm
        /\ checkbox' = S.checkbox
        /\ stage' = S.stage
        /\ exc' = S.exc
        /\ data_source' = S.data_source
        /\ raw_json' = S.raw_json
        /\ df' = S.df
        /\ filtered' = S.filtered
        /\ avg_rating' = S.avg_rating
        /\ percent_displayed' = S.percent_displayed
        /\ summary' = S.summary
        /\ shown' = S.shown
        /\ approved' = S.approved
        /\ saved' = S.saved

\* A session that is not running: nothing cached, every widget at its default.
Closed ==
    /\ fetch = NoCall
    /\ cache = NoCache
    /\ criteria = DefaultCriteria
    /\ page = 1
    /\ view_mode = "Manager Dashboard"
    /\ checkbox = NoCheckbox
    /\ stage = "closed"
    /\ exc = "none"
    /\ data_source = "mock"
    /\ raw_json = NoData.data
    /\ df = << >>
    /\ filtered = << >>
    /\ avg_rating = NA
    /\ percent_displayed = NA
    /\ summary = NoSummary
    /\ shown = {}
    /\ approved = NoSummary
    /\ saved = NotSaved

\* The session ends: the cache and the widget values go with the process.
Close ==
    /\ fetch' = NoCall
    /\ cache' = NoCache
    /\ criteria' = DefaultCriteria
    /\ page' = 1
    /\ view_mode' = "Manager Dashboard"
    /\ checkbox' = NoCheckbox
    /\ stage' = "closed"
    /\ exc' = "none"
    /\ data_source' = "mock"
    /\ raw_json' = NoData.data
    /\ df' = << >>
    /\ filtered' = << >>
    /\ avg_rating' = NA
    /\ percent_displayed' = NA
    /\ summary' = NoSummary
    /\ shown' = {}
    /\ approved' = NoSummary
    /\ saved' = NotSaved

-----------------------------------------------------------------------------
(* Actions.                                                                 *)

\* The files a session can start from: none, or a document under either key.
InitialFiles ==
    {MissingFile}
    \cup {JsonFile(Envelope("result", b)) : b \in RawBatches}
    \cup {JsonFile(Envelope("data", << RecA >>))}

Init == file \in InitialFiles /\ Closed

\* The sidebar is on the screen.
SidebarShown == stage \in {"reviews", "done"}

\* How many filter widgets are off their default.
Active(c) ==
    Cardinality({k \in DOMAIN c : c[k] # DefaultCriteria[k]})

\* The operator opens the dashboard: the first run of a session.
OpenSession ==
    /\ stage = "closed"
    /\ Run(criteria, page, view_mode, checkbox, FALSE)

\* The process ends; the next session starts from the file alone.
CloseSession ==
    /\ stage # "closed"
    /\ Close
    /\ UNCHANGED file

\* A rerun with no widget changed.
Rerun ==
    /\ stage # "closed"
    /\ Run(criteria, page, view_mode, checkbox, FALSE)

\* The filter widgets one interaction can lead to: one widget changed.
CriteriaChoices(frame, c) ==
    {[c EXCEPT !.listing = l] : l \in Listings(frame)}
    \cup {[c EXCEPT !.channel = ch] : ch \in Channels(frame)}
    \cup {[c EXCEPT !.rating = r] : r \in RatingRanges}
    \cup {[c EXCEPT !.category = cat] : cat \in Categories(frame)}
    \cup {[c EXCEPT !.dates = d] :
            d \in {DefaultDates}
                  \cup {[set |-> TRUE, start |-> DateOf(t), end |-> DateOf(t)] :
                          t \in Dates(frame)}}
    \cup {[c EXCEPT !.search = t] : t \in SearchTexts}

\* The operator changes one filter widget.
ChangeFilter ==
    /\ SidebarShown
    /\ \E c \in CriteriaChoices(cache.df, criteria) :
          /\ c # criteria
          /\ Active(c) <= MaxActiveFilters
          /\ Run(c, page, view_mode, checkbox, FALSE)

\* The operator sets the page number.
SetPage ==
    /\ SidebarShown
    /\ filtered # << >>
    /\ \E p \in 1..MaxPage(Len(filtered)) :
          Run(criteria, p, view_mode, checkbox, FALSE)

\* The operator switches between the dashboard and the public page.
SwitchView ==
    /\ stage = "done"
    /\ \E vm \in {"Manager Dashboard", "Public Property Page"} :
          /\ vm # view_mode
          /\ Run(criteria, page, vm, checkbox, FALSE)

\* The checkbox of review id, flipped from what the last run showed.
Flipped(frame, cb, id) ==
    [cb EXCEPT ![id] =
        IF (CHOOSE r \in SeqToSet(frame) : r.id = id).displayOnWebsite = "true"
        THEN "false" ELSE "true"]

\* The operator flips the Show checkbox of a review.
ToggleDisplay ==
    \E id \in shown :
        Run(criteria, page, view_mode, Flipped(df, checkbox, id), FALSE)

\* The operator presses "Save display flags (local file)".
ClickSave ==
    /\ SidebarShown
    /\ Run(criteria, page, view_mode, checkbox, TRUE)

\* The process stops inside the with block of lines 110-111: open("w") has
\* emptied the file and json.dump has written no more than a part of the text.
SaveInterrupted ==
    /\ SidebarShown
    /\ file' = TruncatedFile
    /\ Close

Next ==
    \/ OpenSession
    \/ CloseSession
    \/ Rerun
    \/ ChangeFilter
    \/ SetPage
    \/ SwitchView
    \/ ToggleDisplay
    \/ ClickSave
    \/ SaveInterrupted

Spec == Init /\ [][Next]_vars

-----------------------------------------------------------------------------
(* Properties.                                                              *)

\* The sidebar was built, so the filtering block ran.
Filtered == stage \in {"reviews", "done"}

\* What a load of the snapshot file yields.
Reloaded == Normalize(file.doc)

\* A row without its displayOnWebsite cell.
Masked(r) == [r EXCEPT !.displayOnWebsite = "-"]

\* C1: after a save, a load of the snapshot file yields for every review the
\* displayOnWebsite value the operator set with its checkbox, and every other
\* field as it was.
C1_RoundTrip ==
    (saved.done /\ stage = "done") =>
        /\ Len(Reloaded) = Len(df)
        /\ \A i \in DOMAIN df :
              /\ Masked(Reloaded[i]) = Masked(df[i])
              /\ (df[i].id \in CheckboxKeys /\ checkbox[df[i].id] # "unset")
                    => Reloaded[i].displayOnWebsite = checkbox[df[i].id]

C3_AtomicSave == file.kind # "truncated"

\* The endpoint gave a result list that is not empty (and nothing failed).
FetchSucceeded ==
    /\ fetch.resp.creds
    /\ ~fetch.resp.raised
    /\ fetch.resp.status_code = 200
    /\ fetch.resp.parsable
    /\ fetch.resp.body.key = "result"
    /\ fetch.resp.body.records # << >>

\* C4: in the run that loads, a failed fetch leads to the local snapshot,
\* tagged "mock"; the remote data is used and tagged "hostaway" only when the
\* fetch gave a result list that is not empty; and a failed fetch with no
\* snapshot file ends in the reported error, with nothing loaded.
C4_SourceFallback ==
    fetch.called =>
        /\ FetchSucceeded
              => data_source = "hostaway" /\ raw_json = fetch.resp.body /\ cache.hit
        /\ (~FetchSucceeded /\ file.kind = "json")
              => data_source = "mock" /\ raw_json = file.doc /\ cache.hit
        /\ (~FetchSucceeded /\ file.kind = "missing")
              => /\ stage = "stopped"
                 /\ exc = "FileNotFoundError"
                 /\ ~cache.hit
        /\ (cache.hit /\ data_source = "hostaway") => FetchSucceeded

\* A fetch answered with status 500 fell through to a snapshot with reviews.
C4_Witness ==
    /\ fetch.called
    /\ fetch.resp.creds /\ fetch.resp.status_code = 500
    /\ data_source = "mock"
    /\ df # << >>

\* C5: the ids of the normalized reviews are pairwise distinct, and each is
\* the id of a record of the batch.
C5_UniqueIds ==
    /\ \A i \in DOMAIN df, j \in DOMAIN df : df[i].id = df[j].id => i = j
    /\ \A i \in DOMAIN df : df[i].id # NoneVal

RatedAndDated(frame) ==
    SelectSeq(frame, LAMBDA r :
        r.rating # NoneVal /\ r.rating >= 0 /\ r.rating <= 10 /\ r.date # NoneVal)

C7_EmptySummary ==
    (Filtered /\ filtered = << >>) =>
        /\ avg_rating = NA
        /\ percent_displayed = NA
        /\ summary = NoSummary

\* C8: displayOnWebsite of every in-memory review is a boolean.
C8_DisplayBoolean ==
    \A i \in DOMAIN df : df[i].displayOnWebsite \in {"true", "false"}

\* C9: with a category selected (and no other filter), a review of the
\* default rating and date range is in the filtered view if and only if its
\* raw category list has an entry of that name.
C9_CategoryPresence ==
    (Filtered /\ criteria.category # "All"
              /\ criteria = [DefaultCriteria EXCEPT !.category = criteria.category]) =>
        \A i \in DOMAIN cache.df :
            (cache.df[i] \in SeqToSet(RatedAndDated(cache.df))) =>
                (cache.df[i] \in SeqToSet(filtered)
                    <=> criteria.category \in CatNames(cache.raw.records[i].reviewCategory))

\* C10: the snapshot file changes only in a run with the save button pressed.
C10_OnlySaveWrites ==
    [][file' # file => (saved'.done \/ file'.kind = "truncated")]_vars

\* Filters changed, the view switched and a checkbox flipped, and the file is
\* the one the session started from.
C10_Witness ==
    /\ stage = "done"
    /\ criteria # DefaultCriteria
    /\ view_mode = "Public Property Page"
    /\ \E k \in CheckboxKeys : checkbox[k] # "unset"
    /\ file \in InitialFiles
    /\ \E i \in DOMAIN file.doc.records : file.doc.records[i].displayOnWebsite = "absent"

\* The raw records of the loaded batch the overlay of lines 107-109 writes to.
Overlaid ==
    IF cache.raw.key = "result"
    THEN {i \in DOMAIN cache.raw.records : cache.raw.records[i].id \in IdKeys(cache.df)}
    ELSE {}

\* C11: the count a save reports is the number of raw records whose
\* displayOnWebsite the save overlaid; an in-memory id with no raw counterpart
\* is left out of that count.
C11_SaveCount ==
    saved.done => saved.count = Cardinality(Overlaid)

====
